---- MODULE Spec2Model ----
(***************************************************************************)
(* RedshiftSqlLineageV2 (datahub/ingestion/source/redshift/lineage_v2.py): *)
(* build() turns catalog evidence into facts handed to the                 *)
(* SqlParsingAggregator.  The model follows build() step by step: the      *)
(* registry (known_urns), the temp-table rows, the table renames, the      *)
(* populate_calls loop with its per-kind try/except, and the external      *)
(* tables.                                                                 *)
(***************************************************************************)
EXTENDS Integers, Sequences, FiniteSets, TLC

VARIABLES
    config,          \* self.config (the fields build() reads)
    all_tables,      \* build(all_tables=...): dict db -> dict schema -> list of tables
    db_schemas,      \* build(db_schemas=...): dict db -> dict schema -> RedshiftSchema
    known_urns,      \* self.known_urns
    aggregator,      \* the calls made on self.aggregator, in call order
    warnings,        \* the keys of self.report.warning(...), in call order
    populate_calls,  \* the local list populate_calls of build()
    idx,             \* position of the for loop over populate_calls (1-based)
    rows,            \* what is left of the row generator being iterated
    pc,              \* position inside build()
    executed,        \* history: the sources whose query has been executed in this run
    served,          \* history: for each source, the stream its query returned
    used,            \* history: number of stream items served so far in this run
    phase,           \* "first", or the kind of replay run in progress
    first_run,       \* the first run's aggregator calls, kept for the replay runs
    inject           \* the evidence kind whose query is made to fail in a replay

vars == <<config, all_tables, db_schemas, known_urns, aggregator, warnings,
          populate_calls, idx, rows, pc, executed, served, used, phase,
          first_run, inject>>

inputs == <<config, all_tables, db_schemas>>
harness == <<phase, first_run, inject>>

----------------------------------------------------------------------------
(* Bounds of the model.                                                    *)

\* Total number of stream items (rows, rename pairs, faults) the connection
\* serves during one run.
MaxRows == 2

----------------------------------------------------------------------------
(* Python values.                                                          *)

\* Optional[str]: None is <<>>, a string v is <<v>>.
None == <<>>
Some(v) == <<v>>

\* Truthiness of an Optional[str] (`if not x`): None and "" are falsy.
Truthy(f) == f # None /\ f[1] # ""

\* str() of an Optional[str] inside an f-string: None prints as "None".
Fmt(f) == IF f = None THEN "None" ELSE f[1]

\* An insertion-ordered dict is a sequence of [k, v] items.
HasKey(d, key) == \E i \in DOMAIN d : d[i].k = key
Get(d, key) == d[CHOOSE i \in DOMAIN d : d[i].k = key].v

Range(s) == {s[i] : i \in DOMAIN s}

SeqsUpTo(S, n) == UNION {[1..m -> S] : m \in 0..n}

\* str.lower() on the schema types of the model.
Lower(s) ==
    CASE s = "EXTERNAL" -> "external"
      [] s = "GLUE" -> "glue"
      [] s = "Hive" -> "hive"
      [] OTHER -> s

----------------------------------------------------------------------------
(* Identifiers.                                                            *)

platform == "redshift"
database == "db"

\* DatasetUrn.create_from_ids(platform, table_name, env, platform_instance).urn()
create_from_ids(platform_id, table_name, env, platform_instance) ==
    "urn:li:dataset:(urn:li:dataPlatform:" \o platform_id \o ","
        \o (IF Truthy(platform_instance)
            THEN platform_instance[1] \o "." \o table_name
            ELSE table_name)
        \o "," \o env \o ")"

\* mce_builder.make_dataset_urn_with_platform_instance(platform, name, platform_instance, env)
make_dataset_urn_with_platform_instance(platform_id, name, platform_instance, env) ==
    create_from_ids(platform_id, name, env, platform_instance)

\* f"{db}.{schema}.{table}"
QualifiedName(db, schema, table) == db \o "." \o schema \o "." \o table

\* RegistryOf with a slip: views and external tables are left out.
RegistryOf_tables_only(tables, cfg) ==
    UNION { UNION { { create_from_ids(platform,
                          QualifiedName(tables[i].k, tables[i].v[j].k, tables[i].v[j].v[n].name),
                          cfg.env, cfg.platform_instance)
                      : n \in {m \in DOMAIN tables[i].v[j].v : tables[i].v[j].v[m].type = "TABLE"} }
                    : j \in DOMAIN tables[i].v }
            : i \in DOMAIN tables }

\* The set comprehension of build(), lines 88-98.
RegistryOf(tables, cfg) ==
    UNION { UNION { { create_from_ids(platform,
                          QualifiedName(tables[i].k, tables[i].v[j].k, tables[i].v[j].v[n].name),
                          cfg.env, cfg.platform_instance)
                      : n \in DOMAIN tables[i].v[j].v }
                    : j \in DOMAIN tables[i].v }
            : i \in DOMAIN tables }

----------------------------------------------------------------------------
(* Inputs of build(): configuration, catalog snapshot, evidence.           *)

Modes == {"sql_based", "stl_scan_based", "mixed"}

Flags == {"resolve_temp_table_in_lineage", "include_table_rename_lineage",
          "include_views", "include_view_lineage", "include_copy_lineage",
          "include_unload_lineage"}

MakeConfig(on, mode) ==
    [resolve_temp_table_in_lineage |-> "resolve_temp_table_in_lineage" \in on,
     include_table_rename_lineage |-> "include_table_rename_lineage" \in on,
     table_lineage_mode |-> mode,
     include_views |-> "include_views" \in on,
     include_view_lineage |-> "include_view_lineage" \in on,
     include_copy_lineage |-> "include_copy_lineage" \in on,
     include_unload_lineage |-> "include_unload_lineage" \in on,
     env |-> "PROD",
     platform_instance |-> None,
     platform_instance_map |-> None,
     default_schema |-> "public"]

\* The configurations explored: every flag on (each mode), every flag off
\* (each mode), and mixed mode with exactly one flag off.
Configs ==
    {MakeConfig(Flags, m) : m \in Modes}
    \cup {MakeConfig({}, m) : m \in Modes}
    \cup {MakeConfig(Flags \ {f}, "mixed") : f \in Flags}

Table(name, type) == [name |-> name, type |-> type]
Schema(type, external_database) == [type |-> type, external_database |-> external_database]
Item(key, val) == [k |-> key, v |-> val]

\* db.s holds a table and a view, db.x is an external (Glue) schema with two
\* external tables; another database of the snapshot has an external table
\* of its own.
CatalogPlain ==
    [all_tables |->
        <<Item("db", <<Item("s", <<Table("t", "TABLE"), Table("v", "VIEW")>>),
                       Item("x", <<Table("e", "EXTERNAL_TABLE"),
                                   Table("f", "EXTERNAL_TABLE")>>)>>),
          Item("other", <<Item("x", <<Table("g", "EXTERNAL_TABLE")>>)>>)>>,
     db_schemas |->
        <<Item("db", <<Item("s", Schema("local", None)),
                       Item("x", Schema("GLUE", Some("raw")))>>),
          Item("other", <<Item("x", Schema("GLUE", Some("raw")))>>)>>]

\* The current database has a schema that is literally named None; another
\* database is part of the snapshot.
CatalogNoneSchema ==
    [all_tables |->
        <<Item("db", <<Item("None", <<Table("t", "TABLE")>>)>>),
          Item("other", <<Item("s", <<Table("t", "TABLE")>>)>>)>>,
     db_schemas |->
        <<Item("db", <<Item("None", Schema("local", None))>>),
          Item("other", <<Item("s", Schema("local", None))>>)>>]

\* The snapshot has no entry for the current database.
CatalogOtherDb ==
    [all_tables |->
        <<Item("other", <<Item("s", <<Table("t", "TABLE")>>)>>)>>,
     db_schemas |->
        <<Item("other", <<Item("s", Schema("local", None))>>)>>]

Catalogs == {CatalogPlain, CatalogNoneSchema, CatalogOtherDb}

\* LineageRow (redshift_schema.py): the fields the processors read.
Row(ddl, target_schema, target_table, source_schema, source_table, filename) ==
    [ddl |-> ddl, timestamp |-> "T", session_id |-> Some("sess"),
     target_schema |-> target_schema, target_table |-> target_table,
     source_schema |-> source_schema, source_table |-> source_table,
     filename |-> filename]

\* Sources of evidence: the temp-table query, the rename detection, and the
\* LineageCollectorType of each populate call.
QUERY_SQL_PARSER == "QUERY_SQL_PARSER"
QUERY_SCAN == "QUERY_SCAN"
VIEW == "VIEW"
VIEW_DDL_SQL_PARSING == "VIEW_DDL_SQL_PARSING"
COPY == "COPY"
UNLOAD == "UNLOAD"
TEMP_TABLES == "TEMP_TABLES"
TABLE_RENAMES == "TABLE_RENAMES"
EXTERNAL_TABLES == "EXTERNAL_TABLES"

Kinds == {QUERY_SQL_PARSER, QUERY_SCAN, VIEW, VIEW_DDL_SQL_PARSING, COPY, UNLOAD}
Sources == Kinds \cup {TEMP_TABLES, TABLE_RENAMES}

S3File == Some("s3://bucket/file.csv")

\* Rows each query can return.
SqlRows ==
    {Row(d, Some("s"), Some("t"), Some("s"), Some("v"), None)
        : d \in {None, Some(""), Some("q")}}

ScanRows ==
    {Row(Some("q"), Some("s"), Some("t"), Some("s"), Some("v"), None),
     Row(Some("q"), Some("s"), Some("t"), Some("s"), Some("tmp"), None),
     Row(None, Some("s"), Some("t"), Some("s"), Some("v"), None),
     Row(Some("q"), None, Some("t"), Some("s"), Some("v"), None),
     Row(None, Some("s"), Some("tmp"), Some("s"), Some("v"), None),
     Row(Some("q"), Some("s"), Some("tmp"), Some("s"), Some("v"), None)}

ViewRows ==
    {Row(Some("q"), Some("s"), Some("v"), None, None, None),
     Row(Some(""), Some("s"), Some("v"), None, None, None),
     Row(None, Some("s"), Some("v"), None, None, None),
     Row(Some("q"), None, Some("t"), None, None, None),
     Row(Some("q"), Some("s"), Some("tmp"), None, None, None)}

CopyRows ==
    {Row(None, Some("s"), Some("t"), None, None, S3File),
     Row(None, Some("s"), Some("t"), None, None, None),
     Row(None, None, Some("t"), None, None, S3File),
     Row(None, Some("s"), Some(""), None, None, S3File),
     Row(None, Some("s"), Some("tmp"), None, None, S3File)}

UnloadRows ==
    {Row(None, None, None, Some("s"), Some("t"), S3File),
     Row(None, None, None, Some("s"), Some("t"), None),
     Row(None, None, None, None, Some("t"), S3File),
     Row(None, None, None, Some("s"), Some("tmp"), S3File)}

\* TempRow: query_text, session_id, start_time.
TempRows == {[query_text |-> "create temp table tmp", session_id |-> "sess", start_time |-> "T"]}

\* A detected rename: new urn -> original urn.
RenamePairs ==
    {[new_urn |-> create_from_ids(platform, "db.s.t", "PROD", None),
      original_urn |-> create_from_ids(platform, "db.s.t_old", "PROD", None)]}

RowsOf(source) ==
    CASE source = QUERY_SQL_PARSER -> SqlRows
      [] source = QUERY_SCAN -> ScanRows
      [] source = VIEW -> ViewRows
      [] source = VIEW_DDL_SQL_PARSING -> ViewRows
      [] source = COPY -> CopyRows
      [] source = UNLOAD -> UnloadRows
      [] source = TEMP_TABLES -> TempRows
      [] source = TABLE_RENAMES -> RenamePairs

\* A stream item is a row, or the exception raised instead of the next row
\* (at position 1: the query itself failed).
RowItem(r) == [exc |-> FALSE, row |-> r]
Fault == [exc |-> TRUE]

\* The streams a query can return with n items left to serve: rows, possibly
\* ended by an exception (a generator that raised yields nothing more).
Streams(source, n) ==
    {s \in SeqsUpTo({RowItem(r) : r \in RowsOf(source)} \cup {Fault}, n) :
        \A i \in DOMAIN s : s[i].exc => i = Len(s)}

NoStream == <<>>

----------------------------------------------------------------------------
(* Collaborators: the legacy extractor and the aggregator.                 *)

\* strip_s3_prefix of the COPY/UNLOAD path.
StripS3Prefix(path) ==
    CASE path = "s3://bucket/file.csv" -> "bucket/file.csv"
      [] OTHER -> path

\* RedshiftLineageExtractor._get_sources(COPY, filename=...)[0]: the storage
\* location named by the filename, if any.
get_sources(filename) ==
    IF filename = S3File
    THEN <<[urn |-> make_dataset_urn_with_platform_instance(
                        "s3", StripS3Prefix(filename[1]), None, "PROD")]>>
    ELSE <<>>

\* RedshiftLineageExtractor._get_target_lineage(UNLOAD): the output location
\* of the unload, if any.
get_target_lineage(lineage_row) ==
    IF lineage_row.filename = S3File
    THEN Some([dataset |-> [urn |-> make_dataset_urn_with_platform_instance(
                        "s3", StripS3Prefix(lineage_row.filename[1]), None, "PROD")]])
    ELSE None

\* What a processor did with one row: the aggregator calls it made, and
\* whether it raised.
Returned(calls) == [calls |-> calls, raised |-> FALSE]
Raised == [calls |-> <<>>, raised |-> TRUE]

----------------------------------------------------------------------------
(* The processors, lines 232-351.                                          *)

_process_sql_parser_lineage(lineage_row) ==
    LET ddl == lineage_row.ddl IN
    IF ddl = None
    THEN Returned(<<>>)
    ELSE Returned(<<[method |-> "add_observed_query",
                     query |-> ddl[1],
                     default_db |-> database,
                     default_schema |-> config.default_schema,
                     query_timestamp |-> lineage_row.timestamp,
                     session_id |-> lineage_row.session_id,
                     is_known_temp_table |-> FALSE]>>)

\* _make_filtered_target with a slip: the membership test is left out.
_make_filtered_target_unchecked(lineage_row) ==
    Some(create_from_ids(
             platform,
             QualifiedName(database, Fmt(lineage_row.target_schema),
                           Fmt(lineage_row.target_table)),
             config.env, config.platform_instance))

\* _make_filtered_target with a slip: the target is looked up under every
\* database of the snapshot, not only the current one.
_make_filtered_target_anydb(lineage_row) ==
    LET named(db) == create_from_ids(
                         platform,
                         QualifiedName(db, Fmt(lineage_row.target_schema),
                                       Fmt(lineage_row.target_table)),
                         config.env, config.platform_instance)
    IN IF \A i \in DOMAIN all_tables : named(all_tables[i].k) \notin known_urns
       THEN None
       ELSE Some(named(database))

_make_filtered_target(lineage_row) ==
    LET target == create_from_ids(
                      platform,
                      QualifiedName(database, Fmt(lineage_row.target_schema),
                                    Fmt(lineage_row.target_table)),
                      config.env, config.platform_instance)
    IN IF target \notin known_urns THEN None ELSE Some(target)

\* _process_stl_scan_lineage with a slip: a row without query text is
\* skipped like a row without a known target.
_process_stl_scan_lineage_skip_missing(lineage_row) ==
    LET target == _make_filtered_target(lineage_row)
        source == create_from_ids(
                      platform,
                      QualifiedName(database, Fmt(lineage_row.source_schema),
                                    Fmt(lineage_row.source_table)),
                      config.env, config.platform_instance)
    IN IF target = None
       THEN Returned(<<>>)
       ELSE IF ~Truthy(lineage_row.ddl)
       THEN Returned(<<>>)
       ELSE Returned(<<[method |-> "add_known_query_lineage",
                        query_text |-> lineage_row.ddl[1],
                        downstream |-> target[1],
                        upstreams |-> <<source>>,
                        timestamp |-> lineage_row.timestamp,
                        merge_lineage |-> TRUE]>>)

\* _process_stl_scan_lineage with a slip: the source is tested against the
\* registry like the target.
_process_stl_scan_lineage_known_source(lineage_row) ==
    LET target == _make_filtered_target(lineage_row)
        source == create_from_ids(
                      platform,
                      QualifiedName(database, Fmt(lineage_row.source_schema),
                                    Fmt(lineage_row.source_table)),
                      config.env, config.platform_instance)
    IN IF target = None
       THEN Returned(<<>>)
       ELSE IF source \notin known_urns
       THEN Returned(<<>>)
       ELSE IF ~Truthy(lineage_row.ddl)
       THEN Raised
       ELSE Returned(<<[method |-> "add_known_query_lineage",
                        query_text |-> lineage_row.ddl[1],
                        downstream |-> target[1],
                        upstreams |-> <<source>>,
                        timestamp |-> lineage_row.timestamp,
                        merge_lineage |-> TRUE]>>)

_process_stl_scan_lineage(lineage_row) ==
    LET target == _make_filtered_target(lineage_row)
        source == create_from_ids(
                      platform,
                      QualifiedName(database, Fmt(lineage_row.source_schema),
                                    Fmt(lineage_row.source_table)),
                      config.env, config.platform_instance)
    IN IF target = None
       THEN Returned(<<>>)
       ELSE IF ~Truthy(lineage_row.ddl)
       THEN Raised     \* line 274: assert lineage_row.ddl (assertions enabled)
       ELSE Returned(<<[method |-> "add_known_query_lineage",
                        query_text |-> lineage_row.ddl[1],
                        downstream |-> target[1],
                        upstreams |-> <<source>>,
                        timestamp |-> lineage_row.timestamp,
                        merge_lineage |-> TRUE]>>)

_process_view_lineage(lineage_row) ==
    LET ddl == lineage_row.ddl
        target == _make_filtered_target(lineage_row)
    IN IF ddl = None
       THEN Returned(<<>>)
       ELSE IF target = None
       THEN Returned(<<>>)
       ELSE Returned(<<[method |-> "add_view_definition",
                        view_urn |-> target[1],
                        view_definition |-> ddl[1],
                        default_db |-> database,
                        default_schema |-> config.default_schema]>>)

\* _process_copy_command with a slip: the test of lines 314-315 is left out.
_process_copy_command_nocheck(lineage_row) ==
    LET source == get_sources(lineage_row.filename)
        target == _make_filtered_target(lineage_row)
    IN IF source = <<>>
       THEN Returned(<<>>)
       ELSE IF target = None
       THEN Returned(<<>>)
       ELSE Returned(<<[method |-> "add_known_lineage_mapping",
                        upstream_urn |-> source[1].urn,
                        downstream_urn |-> target[1]]>>)

\* _process_copy_command with a slip: a target that already has lineage in
\* the aggregator is skipped.
_process_copy_command_dedup(lineage_row) ==
    LET source == get_sources(lineage_row.filename)
        target == _make_filtered_target(lineage_row)
    IN IF source = <<>>
       THEN Returned(<<>>)
       ELSE IF ~Truthy(lineage_row.target_schema) \/ ~Truthy(lineage_row.target_table)
       THEN Returned(<<>>)
       ELSE IF target = None
       THEN Returned(<<>>)
       ELSE IF \E i \in DOMAIN aggregator :
                  /\ aggregator[i].call.method = "add_known_query_lineage"
                  /\ aggregator[i].call.downstream = target[1]
       THEN Returned(<<>>)
       ELSE Returned(<<[method |-> "add_known_lineage_mapping",
                        upstream_urn |-> source[1].urn,
                        downstream_urn |-> target[1]]>>)

\* _process_copy_command with a slip: the target is built directly, without
\* _make_filtered_target.
_process_copy_command_unfiltered(lineage_row) ==
    LET source == get_sources(lineage_row.filename)
        target == create_from_ids(
                      platform,
                      QualifiedName(database, Fmt(lineage_row.target_schema),
                                    Fmt(lineage_row.target_table)),
                      config.env, config.platform_instance)
    IN IF source = <<>>
       THEN Returned(<<>>)
       ELSE IF ~Truthy(lineage_row.target_schema) \/ ~Truthy(lineage_row.target_table)
       THEN Returned(<<>>)
       ELSE Returned(<<[method |-> "add_known_lineage_mapping",
                        upstream_urn |-> source[1].urn,
                        downstream_urn |-> target]>>)

_process_copy_command(lineage_row) ==
    LET source == get_sources(lineage_row.filename)
        target == _make_filtered_target(lineage_row)
    IN IF source = <<>>
       THEN Returned(<<>>)
       ELSE IF ~Truthy(lineage_row.target_schema) \/ ~Truthy(lineage_row.target_table)
       THEN Returned(<<>>)
       ELSE IF target = None
       THEN Returned(<<>>)
       ELSE Returned(<<[method |-> "add_known_lineage_mapping",
                        upstream_urn |-> source[1].urn,
                        downstream_urn |-> target[1]]>>)

\* _process_unload_command with a slip: the output location is tested
\* against the registry as well.
_process_unload_command_known_output(lineage_row) ==
    LET lineage_entry == get_target_lineage(lineage_row)
        source == create_from_ids(
                      platform,
                      QualifiedName(database, Fmt(lineage_row.source_schema),
                                    Fmt(lineage_row.source_table)),
                      config.env, config.platform_instance)
    IN IF lineage_entry = None
       THEN Returned(<<>>)
       ELSE IF ~Truthy(lineage_row.source_schema) \/ ~Truthy(lineage_row.source_table)
       THEN Returned(<<>>)
       ELSE IF source \notin known_urns
       THEN Returned(<<>>)
       ELSE IF lineage_entry[1].dataset.urn \notin known_urns
       THEN Returned(<<>>)
       ELSE Returned(<<[method |-> "add_known_lineage_mapping",
                        upstream_urn |-> source,
                        downstream_urn |-> lineage_entry[1].dataset.urn]>>)

_process_unload_command(lineage_row) ==
    LET lineage_entry == get_target_lineage(lineage_row)
        source == create_from_ids(
                      platform,
                      QualifiedName(database, Fmt(lineage_row.source_schema),
                                    Fmt(lineage_row.source_table)),
                      config.env, config.platform_instance)
    IN IF lineage_entry = None
       THEN Returned(<<>>)
       ELSE IF ~Truthy(lineage_row.source_schema) \/ ~Truthy(lineage_row.source_table)
       THEN Returned(<<>>)
       ELSE IF source \notin known_urns
       THEN Returned(<<>>)
       ELSE Returned(<<[method |-> "add_known_lineage_mapping",
                        upstream_urn |-> source,
                        downstream_urn |-> lineage_entry[1].dataset.urn]>>)

\* processor(lineage_row) for the callable stored in populate_calls.
Apply(processor, lineage_row) ==
    CASE processor = "_process_sql_parser_lineage" -> _process_sql_parser_lineage(lineage_row)
      [] processor = "_process_stl_scan_lineage" -> _process_stl_scan_lineage(lineage_row)
      [] processor = "_process_view_lineage" -> _process_view_lineage(lineage_row)
      [] processor = "_process_copy_command" -> _process_copy_command(lineage_row)
      [] processor = "_process_unload_command" -> _process_unload_command(lineage_row)

\* The (lineage_type, processor) entries build() appends to populate_calls,
\* lines 129-197 (the query text plays no part in the model).
Call(lineage_type, processor) == [lineage_type |-> lineage_type, processor |-> processor]

PopulateCalls(cfg) ==
    (IF cfg.table_lineage_mode \in {"sql_based", "mixed"}
     THEN <<Call(QUERY_SQL_PARSER, "_process_sql_parser_lineage")>> ELSE <<>>)
    \o (IF cfg.table_lineage_mode \in {"stl_scan_based", "mixed"}
        THEN <<Call(QUERY_SCAN, "_process_stl_scan_lineage")>> ELSE <<>>)
    \o (IF cfg.include_views /\ cfg.include_view_lineage
        THEN <<Call(VIEW, "_process_view_lineage"),
               Call(VIEW_DDL_SQL_PARSING, "_process_view_lineage")>> ELSE <<>>)
    \o (IF cfg.include_copy_lineage
        THEN <<Call(COPY, "_process_copy_command")>> ELSE <<>>)
    \o (IF cfg.include_unload_lineage
        THEN <<Call(UNLOAD, "_process_unload_command")>> ELSE <<>>)

\* _process_external_tables, lines 353-386, over the (schema_name, table)
\* pairs still to visit: the calls made, and whether a lookup raised.
\* ExternalCalls with a slip: an external table is skipped when its upstream
\* is not in the registry.
RECURSIVE ExternalCalls_known_upstream(_, _)
ExternalCalls_known_upstream(pairs, calls) ==
    IF pairs = <<>>
    THEN Returned(calls)
    ELSE LET schema_name == pairs[1].schema_name
             table == pairs[1].table
         IN IF table.type # "EXTERNAL_TABLE"
            THEN ExternalCalls_known_upstream(Tail(pairs), calls)
            ELSE IF ~HasKey(db_schemas, database)
                    \/ ~HasKey(Get(db_schemas, database), schema_name)
            THEN [calls |-> calls, raised |-> TRUE]
            ELSE LET schema == Get(Get(db_schemas, database), schema_name)
                     table_urn == make_dataset_urn_with_platform_instance(
                                      platform,
                                      QualifiedName(database, schema_name, table.name),
                                      config.platform_instance, config.env)
                     upstream_urn == make_dataset_urn_with_platform_instance(
                                      Lower(schema.type),
                                      Fmt(schema.external_database) \o "." \o table.name,
                                      None, config.env)
                 IN IF upstream_urn \notin known_urns
                    THEN ExternalCalls_known_upstream(Tail(pairs), calls)
                    ELSE ExternalCalls_known_upstream(Tail(pairs),
                             Append(calls, [method |-> "add_known_lineage_mapping",
                                            upstream_urn |-> upstream_urn,
                                            downstream_urn |-> table_urn]))

RECURSIVE ExternalCalls(_, _)
ExternalCalls(pairs, calls) ==
    IF pairs = <<>>
    THEN Returned(calls)
    ELSE LET schema_name == pairs[1].schema_name
             table == pairs[1].table
         IN IF table.type # "EXTERNAL_TABLE"
            THEN ExternalCalls(Tail(pairs), calls)
            ELSE IF ~HasKey(db_schemas, database)
                    \/ ~HasKey(Get(db_schemas, database), schema_name)
            THEN [calls |-> calls, raised |-> TRUE]     \* KeyError
            ELSE LET schema == Get(Get(db_schemas, database), schema_name)
                     upstream_platform == Lower(schema.type)
                     table_urn == make_dataset_urn_with_platform_instance(
                                      platform,
                                      QualifiedName(database, schema_name, table.name),
                                      config.platform_instance, config.env)
                     upstream_urn == make_dataset_urn_with_platform_instance(
                                      upstream_platform,
                                      Fmt(schema.external_database) \o "." \o table.name,
                                      IF config.platform_instance_map # None
                                      THEN IF HasKey(config.platform_instance_map[1], upstream_platform)
                                           THEN Get(config.platform_instance_map[1], upstream_platform)
                                           ELSE None
                                      ELSE None,
                                      config.env)
                 IN ExternalCalls(Tail(pairs),
                        Append(calls, [method |-> "add_known_lineage_mapping",
                                       upstream_urn |-> upstream_urn,
                                       downstream_urn |-> table_urn]))

\* The (schema_name, table) pairs in the iteration order of the two for
\* loops of _process_external_tables.
RECURSIVE SchemaTablePairs(_)
SchemaTablePairs(schemas) ==
    IF schemas = <<>>
    THEN <<>>
    ELSE [n \in DOMAIN schemas[1].v |->
              [schema_name |-> schemas[1].k, table |-> schemas[1].v[n]]]
         \o SchemaTablePairs(Tail(schemas))

_process_external_tables ==
    IF ~HasKey(all_tables, database)
    THEN Raised      \* KeyError: all_tables[self.database]
    ELSE ExternalCalls(SchemaTablePairs(Get(all_tables, database)), <<>>)

\* The aggregator calls `calls`, made while `source` was being processed.
Tagged(calls, source) == [i \in DOMAIN calls |-> [call |-> calls[i], by |-> source]]

----------------------------------------------------------------------------
(* The connection.                                                         *)

\* What executing the query of `source` returns.  In the first run any
\* stream within the bound; a replay run is served the first run's streams
\* again, except that the query of `inject` fails.
QueryResults(source) ==
    IF phase = "first"
    THEN Streams(source, MaxRows - used)
    ELSE {IF source = inject THEN <<Fault>> ELSE served[source]}

\* The bookkeeping of a query execution.
Serve(source, stream) ==
    /\ executed' = executed \cup {source}
    /\ served' = IF phase = "first" THEN [served EXCEPT ![source] = stream] ELSE served
    /\ used' = used + Len(stream)

----------------------------------------------------------------------------
(* build(), lines 81-208.                                                  *)

Init ==
    /\ config \in Configs
    /\ \E c \in Catalogs : all_tables = c.all_tables /\ db_schemas = c.db_schemas
    /\ known_urns = {}
    /\ aggregator = <<>>
    /\ warnings = <<>>
    /\ populate_calls = <<>>
    /\ idx = 1
    /\ rows = NoStream
    /\ pc = "start"
    /\ executed = {}
    /\ served = [s \in Sources |-> NoStream]
    /\ used = 0
    /\ phase = "first"
    /\ first_run = <<>>
    /\ inject = "none"

\* Lines 88-99: the registry is built from the whole snapshot.
BuildRegistry ==
    /\ pc = "start"
    /\ known_urns' = RegistryOf(all_tables, config)
    /\ pc' = "temp_tables"
    /\ UNCHANGED <<inputs, aggregator, warnings, populate_calls, idx, rows,
                   executed, served, used, harness>>

\* Line 102 false: temp tables are not resolved.
SkipTempTables ==
    /\ pc = "temp_tables"
    /\ ~config.resolve_temp_table_in_lineage
    /\ pc' = "renames"
    /\ UNCHANGED <<inputs, known_urns, aggregator, warnings, populate_calls, idx,
                   rows, executed, served, used, harness>>

\* Line 103: self._lineage_v1.get_temp_tables(connection) starts streaming.
GetTempTables ==
    /\ pc = "temp_tables"
    /\ config.resolve_temp_table_in_lineage
    /\ \E stream \in QueryResults(TEMP_TABLES) :
          /\ rows' = stream
          /\ Serve(TEMP_TABLES, stream)
    /\ pc' = "temp_rows"
    /\ UNCHANGED <<inputs, known_urns, aggregator, warnings, populate_calls, idx,
                   harness>>

\* TempRow with a slip: is_known_temp_table is left at its default.
TempRow_unflagged ==
    /\ pc = "temp_rows"
    /\ rows # <<>>
    /\ ~Head(rows).exc
    /\ LET temp_row == Head(rows).row IN
       aggregator' = aggregator \o Tagged(
           <<[method |-> "add_observed_query",
              query |-> temp_row.query_text,
              default_db |-> database,
              default_schema |-> config.default_schema,
              query_timestamp |-> temp_row.start_time,
              session_id |-> Some(temp_row.session_id),
              is_known_temp_table |-> FALSE]>>, TEMP_TABLES)
    /\ rows' = Tail(rows)
    /\ UNCHANGED <<inputs, known_urns, warnings, populate_calls, idx, pc,
                   executed, served, used, harness>>

\* Lines 104-111: one temp row is forwarded as an observed query.
TempRow ==
    /\ pc = "temp_rows"
    /\ rows # <<>>
    /\ ~Head(rows).exc
    /\ LET temp_row == Head(rows).row IN
       aggregator' = aggregator \o Tagged(
           <<[method |-> "add_observed_query",
              query |-> temp_row.query_text,
              default_db |-> database,
              default_schema |-> config.default_schema,
              query_timestamp |-> temp_row.start_time,
              session_id |-> Some(temp_row.session_id),
              is_known_temp_table |-> TRUE]>>, TEMP_TABLES)
    /\ rows' = Tail(rows)
    /\ UNCHANGED <<inputs, known_urns, warnings, populate_calls, idx, pc,
                   executed, served, used, harness>>

\* Line 103: the temp-table generator raises; nothing in build() catches it.
TempFault ==
    /\ pc = "temp_rows"
    /\ rows # <<>>
    /\ Head(rows).exc
    /\ rows' = NoStream
    /\ pc' = "raised"
    /\ UNCHANGED <<inputs, known_urns, aggregator, warnings, populate_calls, idx,
                   executed, served, used, harness>>

\* Line 103: the temp-table generator is exhausted.
TempEnd ==
    /\ pc = "temp_rows"
    /\ rows = <<>>
    /\ pc' = "renames"
    /\ UNCHANGED <<inputs, known_urns, aggregator, warnings, populate_calls, idx,
                   rows, executed, served, used, harness>>

\* add_table_rename for each item of the dict table_renames, lines 124-127.
RenameCalls(table_renames) ==
    [i \in DOMAIN table_renames |->
        [method |-> "add_table_rename",
         original_urn |-> table_renames[i].row.original_urn,
         new_urn |-> table_renames[i].row.new_urn]]

\* A dict has one item per key.
IsDict(stream) ==
    \A i, j \in DOMAIN stream :
        (~stream[i].exc /\ ~stream[j].exc /\ stream[i].row.new_urn = stream[j].row.new_urn)
            => i = j

\* SkipTableRenames with a slip: taken whatever the configuration says.
SkipTableRenames_always ==
    /\ pc = "renames"
    /\ populate_calls' = PopulateCalls(config)
    /\ idx' = 1
    /\ pc' = "populate"
    /\ UNCHANGED <<inputs, known_urns, aggregator, warnings, rows, executed,
                   served, used, harness>>

\* Line 115 false; then lines 129-197 fill populate_calls.
SkipTableRenames ==
    /\ pc = "renames"
    /\ ~config.include_table_rename_lineage
    /\ populate_calls' = PopulateCalls(config)
    /\ idx' = 1
    /\ pc' = "populate"
    /\ UNCHANGED <<inputs, known_urns, aggregator, warnings, rows, executed,
                   served, used, harness>>

\* Lines 115-127: _process_table_renames returns the renames, or raises
\* (uncaught); then lines 129-197 fill populate_calls.
ProcessTableRenames ==
    /\ pc = "renames"
    /\ config.include_table_rename_lineage
    /\ \E stream \in QueryResults(TABLE_RENAMES) :
          /\ IsDict(stream)
          /\ Serve(TABLE_RENAMES, stream)
          /\ IF \E i \in DOMAIN stream : stream[i].exc
             THEN /\ pc' = "raised"
                  /\ UNCHANGED <<aggregator, populate_calls, idx>>
             ELSE /\ aggregator' = aggregator \o Tagged(RenameCalls(stream), TABLE_RENAMES)
                  /\ populate_calls' = PopulateCalls(config)
                  /\ idx' = 1
                  /\ pc' = "populate"
    /\ UNCHANGED <<inputs, known_urns, warnings, rows, harness>>

\* Line 199: the loop over populate_calls is over.
PopulateDone ==
    /\ pc = "populate"
    /\ idx > Len(populate_calls)
    /\ pc' = "external"
    /\ UNCHANGED <<inputs, known_urns, aggregator, warnings, populate_calls, idx,
                   rows, executed, served, used, harness>>

\* Lines 217-223: _populate_lineage_agg executes the query of the next call.
PopulateLineageAgg ==
    /\ pc = "populate"
    /\ idx <= Len(populate_calls)
    /\ \E stream \in QueryResults(populate_calls[idx].lineage_type) :
          /\ rows' = stream
          /\ Serve(populate_calls[idx].lineage_type, stream)
    /\ pc' = "rows"
    /\ UNCHANGED <<inputs, known_urns, aggregator, warnings, populate_calls, idx,
                   harness>>

\* Except with a slip: the exception is raised again and leaves build().
Except_reraise(lineage_type) ==
    /\ warnings' = warnings
    /\ rows' = NoStream
    /\ idx' = idx
    /\ pc' = "raised"

\* Except with a slip: the warning is recorded but the loop of build() is
\* left, skipping the calls that remain.
Except_break(lineage_type) ==
    /\ warnings' = Append(warnings, "extract-" \o lineage_type)
    /\ rows' = NoStream
    /\ idx' = Len(populate_calls) + 1
    /\ pc' = "populate"

\* Lines 225-230: the except clause of _populate_lineage_agg, which ends the
\* call; the loop of build() goes on with the next entry.
Except(lineage_type) ==
    /\ warnings' = Append(warnings, "extract-" \o lineage_type)
    /\ rows' = NoStream
    /\ idx' = idx + 1
    /\ pc' = "populate"

\* Line 224: processor(lineage_row) for the next row of the stream.
ProcessRow(processor) ==
    /\ pc = "rows"
    /\ rows # <<>>
    /\ ~Head(rows).exc
    /\ populate_calls[idx].processor = processor
    /\ LET lineage_type == populate_calls[idx].lineage_type
           done == Apply(processor, Head(rows).row)
       IN IF done.raised
          THEN /\ Except(lineage_type)
               /\ UNCHANGED aggregator
          ELSE /\ aggregator' = aggregator \o Tagged(done.calls, lineage_type)
               /\ rows' = Tail(rows)
               /\ UNCHANGED <<warnings, idx, pc>>
    /\ UNCHANGED <<inputs, known_urns, populate_calls, executed, served, used,
                   harness>>

SqlParserRow == ProcessRow("_process_sql_parser_lineage")
StlScanRow == ProcessRow("_process_stl_scan_lineage")
ViewRow == ProcessRow("_process_view_lineage")
CopyRow == ProcessRow("_process_copy_command")
UnloadRow == ProcessRow("_process_unload_command")

\* PopulateFault with a slip: the facts the failing kind had forwarded are
\* taken back.
PopulateFault_rollback ==
    /\ pc = "rows"
    /\ rows # <<>>
    /\ Head(rows).exc
    /\ Except(populate_calls[idx].lineage_type)
    /\ aggregator' = SelectSeq(aggregator,
                               LAMBDA e : e.by # populate_calls[idx].lineage_type)
    /\ UNCHANGED <<inputs, known_urns, populate_calls, executed, served, used,
                   harness>>

\* Lines 221-230: get_lineage_rows raises (the query failed, or fetching the
\* next row failed).
PopulateFault ==
    /\ pc = "rows"
    /\ rows # <<>>
    /\ Head(rows).exc
    /\ Except(populate_calls[idx].lineage_type)
    /\ UNCHANGED <<inputs, known_urns, aggregator, populate_calls, executed,
                   served, used, harness>>

\* Line 221: the stream is exhausted; _populate_lineage_agg returns.
PopulateEnd ==
    /\ pc = "rows"
    /\ rows = <<>>
    /\ idx' = idx + 1
    /\ pc' = "populate"
    /\ UNCHANGED <<inputs, known_urns, aggregator, warnings, populate_calls, rows,
                   executed, served, used, harness>>

\* Line 208: the external tables; build() returns, or the KeyError of a
\* missing snapshot entry leaves build().
ProcessExternalTables ==
    /\ pc = "external"
    /\ LET done == _process_external_tables IN
          /\ aggregator' = aggregator \o Tagged(done.calls, EXTERNAL_TABLES)
          /\ pc' = IF done.raised THEN "raised" ELSE "done"
    /\ executed' = executed \cup {EXTERNAL_TABLES}
    /\ UNCHANGED <<inputs, known_urns, warnings, populate_calls, idx, rows,
                   served, used, harness>>

Build ==
    \/ BuildRegistry
    \/ SkipTempTables
    \/ GetTempTables
    \/ TempRow
    \/ TempFault
    \/ TempEnd
    \/ SkipTableRenames
    \/ ProcessTableRenames
    \/ PopulateLineageAgg
    \/ SqlParserRow
    \/ StlScanRow
    \/ ViewRow
    \/ CopyRow
    \/ UnloadRow
    \/ PopulateFault
    \/ PopulateEnd
    \/ PopulateDone
    \/ ProcessExternalTables

Next == Build

Spec == Init /\ [][Next]_vars

----------------------------------------------------------------------------
(* Replay runs: the same build() over the same configuration, snapshot and *)
(* evidence rows, to compare two runs.                                     *)

\* No stream of the run contained an exception.
NoStreamFault ==
    \A source \in Sources : \A n \in DOMAIN served[source] : ~served[source][n].exc

\* After a run without stream faults has returned, build() is run again on
\* a fresh instance with the same inputs; this time the query of one
\* enabled evidence kind fails.
StartFaultReplay ==
    /\ phase = "first"
    /\ pc = "done"
    /\ NoStreamFault
    /\ \E kind \in {populate_calls[i].lineage_type : i \in DOMAIN populate_calls} :
          inject' = kind
    /\ phase' = "fault_replay"
    /\ first_run' = aggregator
    /\ known_urns' = {}
    /\ aggregator' = <<>>
    /\ warnings' = <<>>
    /\ populate_calls' = <<>>
    /\ idx' = 1
    /\ rows' = NoStream
    /\ pc' = "start"
    /\ executed' = {}
    /\ used' = 0
    /\ UNCHANGED <<inputs, served>>

\* After a run without any fault has returned, the rows its evidence kinds
\* were served are classified again by the same processors, against the
\* same registry, in an arbitrary order.
StartInterleavedReplay ==
    /\ phase = "first"
    /\ pc = "done"
    /\ NoStreamFault
    /\ warnings = <<>>
    /\ phase' = "interleaved"
    /\ first_run' = aggregator
    /\ aggregator' = <<>>
    /\ pc' = "interleave"
    /\ UNCHANGED <<inputs, known_urns, warnings, populate_calls, idx, rows,
                   executed, served, used, inject>>

\* The sequence s without its n-th element.
Remove(s, n) == SubSeq(s, 1, n - 1) \o SubSeq(s, n + 1, Len(s))

\* processor(lineage_row) for any row still pending of any populate call;
\* in this phase `served` holds the rows that are still pending.
InterleavedRow ==
    /\ phase = "interleaved"
    /\ pc = "interleave"
    /\ \E i \in DOMAIN populate_calls :
          LET lineage_type == populate_calls[i].lineage_type IN
          \E n \in DOMAIN served[lineage_type] :
             LET done == Apply(populate_calls[i].processor, served[lineage_type][n].row) IN
             IF done.raised
             THEN /\ pc' = "raised"
                  /\ UNCHANGED <<aggregator, served>>
             ELSE /\ aggregator' = aggregator \o Tagged(done.calls, lineage_type)
                  /\ served' = [served EXCEPT ![lineage_type] = Remove(@, n)]
                  /\ pc' = pc
    /\ UNCHANGED <<inputs, known_urns, warnings, populate_calls, idx, rows,
                   executed, used, harness>>

\* The two-run comparison explores every flag on (each mode) and every flag
\* off.
IsolationConfigs ==
    {MakeConfig(Flags, m) : m \in Modes} \cup {MakeConfig({}, "mixed")}

InitIsolation == Init /\ config \in IsolationConfigs
NextIsolation == Build \/ StartFaultReplay
SpecIsolation == InitIsolation /\ [][NextIsolation]_vars

NextInterleaved == Build \/ StartInterleavedReplay \/ InterleavedRow
SpecInterleaved == Init /\ [][NextInterleaved]_vars

\* build() alone, over the configurations of the two-run comparison.
SpecBuild == InitIsolation /\ [][Build]_vars

----------------------------------------------------------------------------
(* Vocabulary of the properties.                                           *)

\* The entries of `agg` made while `source` was being processed.
FactsBy(agg, source) == SelectSeq(agg, LAMBDA e : e.by = source)

\* Whether the configuration enables an evidence kind of the dispatch loop.
KindEnabled(kind) ==
    CASE kind = QUERY_SQL_PARSER -> config.table_lineage_mode # "stl_scan_based"
      [] kind = QUERY_SCAN -> config.table_lineage_mode # "sql_based"
      [] kind \in {VIEW, VIEW_DDL_SQL_PARSING} ->
            config.include_views /\ config.include_view_lineage
      [] kind = COPY -> config.include_copy_lineage
      [] kind = UNLOAD -> config.include_unload_lineage

\* The kind of entry i of populate_calls faulted: its stream raised, or its
\* processor raised on a row.
Faulted(i) ==
    LET stream == served[populate_calls[i].lineage_type] IN
    \E n \in DOMAIN stream :
        \/ stream[n].exc
        \/ Apply(populate_calls[i].processor, stream[n].row).raised

\* The rows the query of `source` returned.
RowsServed(source) ==
    {served[source][n].row : n \in {m \in DOMAIN served[source] : ~served[source][m].exc}}

\* The downstream identifier an aggregator call carries.
CarriesDownstream(call) ==
    call.method \in {"add_known_query_lineage", "add_known_lineage_mapping",
                     "add_view_definition"}
DownstreamOf(call) ==
    CASE call.method = "add_known_query_lineage" -> call.downstream
      [] call.method = "add_known_lineage_mapping" -> call.downstream_urn
      [] call.method = "add_view_definition" -> call.view_urn

\* A row is being handed to the processor of the current populate call.
AtRow == pc = "rows" /\ rows # <<>> /\ ~Head(rows).exc
CurrentRow == Head(rows).row
CurrentProcessor == populate_calls[idx].processor
CurrentKind == populate_calls[idx].lineage_type

\* build() is over: it returned, or an exception left it.
Ended == pc \in {"done", "raised"}

----------------------------------------------------------------------------
(* C1 *)

\* C1 as stated: every forwarded fact that carries a downstream identifier
\* and does not come from the external tables has that identifier in
\* known_urns.
C1_DownstreamAlwaysKnown ==
    \A i \in DOMAIN aggregator :
        (aggregator[i].by # EXTERNAL_TABLES /\ CarriesDownstream(aggregator[i].call))
            => DownstreamOf(aggregator[i].call) \in known_urns

\* C1 amended: every fact forwarded by the scan, view or copy processor has
\* its downstream identifier in known_urns; an unload edge has its upstream
\* (the unloaded table) in known_urns, its downstream being the output
\* location.
C1_DownstreamKnownExceptUnload ==
    \A i \in DOMAIN aggregator :
        LET e == aggregator[i] IN
        /\ (e.by \in {QUERY_SCAN, VIEW, VIEW_DDL_SQL_PARSING, COPY}
               /\ CarriesDownstream(e.call))
              => DownstreamOf(e.call) \in known_urns
        /\ e.by = UNLOAD => e.call.upstream_urn \in known_urns

\* An unload edge and a filtered edge have both been forwarded.
C1_Witness ==
    /\ \E i \in DOMAIN aggregator : aggregator[i].by = UNLOAD
    /\ \E i \in DOMAIN aggregator : aggregator[i].by \in {QUERY_SCAN, VIEW, COPY}

----------------------------------------------------------------------------
(* C2 *)

\* C2: a fault in the query or the processor of one evidence kind is caught
\* (build() is not left from inside the loop), a warning keyed by that kind
\* is recorded, and every enabled kind's query is executed before the run
\* leaves the loop.
C2_FaultCaughtRunContinues ==
    /\ \A i \in DOMAIN populate_calls :
          (i < idx /\ Faulted(i))
              => ("extract-" \o populate_calls[i].lineage_type) \in Range(warnings)
    /\ pc = "raised" => (populate_calls = <<>> \/ EXTERNAL_TABLES \in executed)
    /\ (pc \in {"external", "done"} \/ EXTERNAL_TABLES \in executed)
          => \A kind \in Kinds : KindEnabled(kind) => kind \in executed

\* The run returned although a kind faulted, and a later kind's rows were
\* processed after the fault.
C2_Witness ==
    /\ pc = "done"
    /\ \E i, j \in DOMAIN populate_calls :
          /\ i < j
          /\ Faulted(i)
          /\ FactsBy(aggregator, populate_calls[j].lineage_type) # <<>>

----------------------------------------------------------------------------
(* C3 *)

\* C3 as stated: once the registry is built, no exception leaves build().
C3_NoExceptionEscapes == pc # "raised"

----------------------------------------------------------------------------
(* C5 *)

\* The row is dropped: nothing is forwarded, nothing is raised, and the
\* loop of _populate_lineage_agg goes on with the next row.
RowDropped ==
    aggregator' = aggregator /\ warnings' = warnings /\ pc' = "rows"

\* The row lacks (has None for) a field the processor requires.
LacksRequired(processor, row) ==
    CASE processor = "_process_sql_parser_lineage" -> row.ddl = None
      [] processor \in {"_process_stl_scan_lineage", "_process_view_lineage"} ->
            row.ddl = None \/ row.target_schema = None \/ row.target_table = None
      [] processor = "_process_copy_command" ->
            row.filename = None \/ row.target_schema = None \/ row.target_table = None
      [] processor = "_process_unload_command" ->
            row.filename = None \/ row.source_schema = None \/ row.source_table = None

\* The row lacks a field that the processor tests itself before using it.
LacksTested(processor, row) ==
    CASE processor \in {"_process_sql_parser_lineage", "_process_view_lineage"} ->
            row.ddl = None
      [] processor = "_process_stl_scan_lineage" -> FALSE
      [] processor = "_process_copy_command" ->
            row.filename = None \/ ~Truthy(row.target_schema) \/ ~Truthy(row.target_table)
      [] processor = "_process_unload_command" ->
            row.filename = None \/ ~Truthy(row.source_schema) \/ ~Truthy(row.source_table)

\* C5 as stated: a step that hands a processor a row lacking a required
\* field forwards no fact and raises nothing.
C5_LackingRowIsSkipped ==
    [][(AtRow /\ LacksRequired(CurrentProcessor, CurrentRow)) => RowDropped]_vars

\* C5 amended: a row lacking a field that its processor tests itself (SQL
\* text for the observed-query and view processors; filename, target schema
\* or target table for copy; filename, source schema or source table for
\* unload) is dropped without a fact or an exception; the scan and view
\* processors do not test the target fields, and drop a row with a null
\* target field when the identifier formatted from it is not in known_urns;
\* the scan processor drops a row without SQL text only when its target
\* does not resolve, and raises (caught, one warning for the scan kind)
\* when it does.
C5_LackingRowSkippedOrScanRaises ==
    [][AtRow =>
        /\ LacksTested(CurrentProcessor, CurrentRow) => RowDropped
        /\ (/\ CurrentProcessor \in {"_process_stl_scan_lineage", "_process_view_lineage"}
            /\ CurrentRow.target_schema = None \/ CurrentRow.target_table = None
            /\ _make_filtered_target(CurrentRow) = None)
              => RowDropped
        /\ (/\ CurrentProcessor = "_process_stl_scan_lineage"
            /\ CurrentRow.ddl = None)
              => IF _make_filtered_target(CurrentRow) = None
                 THEN RowDropped
                 ELSE /\ aggregator' = aggregator
                      /\ warnings' = Append(warnings, "extract-" \o CurrentKind)
                      /\ pc' = "populate"
      ]_vars

\* A scan row without SQL text made the scan kind fail, a copy row without
\* target schema was dropped, and the run returned.
C5_Witness ==
    /\ pc = "done"
    /\ warnings = <<"extract-QUERY_SCAN">>
    /\ \E row \in RowsServed(QUERY_SCAN) : row.ddl = None
    /\ \E row \in RowsServed(COPY) : row.target_schema = None
    /\ FactsBy(aggregator, COPY) = <<>>

----------------------------------------------------------------------------
(* C6 *)

\* C6 as stated: every run executes the external-table processing, and no
\* fact of any other source follows an external-table edge.
C6_ExternalAlwaysRunsLast ==
    /\ Ended => EXTERNAL_TABLES \in executed
    /\ \A i, j \in DOMAIN aggregator :
          (i < j /\ aggregator[i].by = EXTERNAL_TABLES)
              => aggregator[j].by = EXTERNAL_TABLES

----------------------------------------------------------------------------
(* C7 *)

\* C7 as stated: with rename tracking enabled, rename detection is the
\* first source to execute and no fact of another source precedes a Rename
\* fact.
C7_RenameFirst ==
    config.include_table_rename_lineage =>
        /\ executed # {} => TABLE_RENAMES \in executed
        /\ \A i, j \in DOMAIN aggregator :
              (i < j /\ aggregator[j].by = TABLE_RENAMES)
                  => aggregator[i].by = TABLE_RENAMES

\* C7 amended: with rename tracking enabled, rename detection executes
\* before every kind of the dispatch loop and before the external tables,
\* and only Rename facts and temp-table facts precede a Rename fact (the
\* temp-table rows are streamed before rename detection).
C7_RenameBeforeDispatch ==
    config.include_table_rename_lineage =>
        /\ executed \cap (Kinds \cup {EXTERNAL_TABLES}) # {} => TABLE_RENAMES \in executed
        /\ \A i, j \in DOMAIN aggregator :
              (i < j /\ aggregator[j].by = TABLE_RENAMES)
                  => aggregator[i].by \in {TABLE_RENAMES, TEMP_TABLES}

\* A temp-table fact, then a Rename fact, then a later fact were forwarded.
C7_Witness ==
    /\ config.include_table_rename_lineage
    /\ \E i, j, n \in DOMAIN aggregator :
          /\ i < j /\ j < n
          /\ aggregator[i].by = TEMP_TABLES
          /\ aggregator[j].by = TABLE_RENAMES
          /\ aggregator[n].by \notin {TEMP_TABLES, TABLE_RENAMES}

----------------------------------------------------------------------------
(* C8 *)

\* C8 as stated: whenever a processor hands _make_filtered_target a row
\* whose target schema or target table is empty or null, it returns None.
C8_EmptyTargetIsAbsent ==
    (/\ AtRow
     /\ \/ CurrentProcessor = "_process_stl_scan_lineage"
        \/ CurrentProcessor = "_process_view_lineage" /\ CurrentRow.ddl # None
     /\ ~Truthy(CurrentRow.target_schema) \/ ~Truthy(CurrentRow.target_table))
        => _make_filtered_target(CurrentRow) = None

----------------------------------------------------------------------------
(* C10 *)

\* C10: every Known Edge forwarded by the scan processor, the copy
\* processor or the external-table processing has its downstream identifier
\* in known_urns.
C10_KnownEdgeDownstreamInRegistry ==
    \A i \in DOMAIN aggregator :
        (/\ aggregator[i].by \in {QUERY_SCAN, COPY, EXTERNAL_TABLES}
         /\ aggregator[i].call.method \in {"add_known_query_lineage",
                                           "add_known_lineage_mapping"})
            => DownstreamOf(aggregator[i].call) \in known_urns

\* An external-table edge and a scan or copy edge have been forwarded.
C10_Witness ==
    /\ \E i \in DOMAIN aggregator : aggregator[i].by = EXTERNAL_TABLES
    /\ \E i \in DOMAIN aggregator : aggregator[i].by \in {QUERY_SCAN, COPY}

----------------------------------------------------------------------------
(* C4 *)

\* C4: the replay run, in which the query of one evidence kind fails,
\* returns, and every other source (each other kind of the loop, the temp
\* tables, the renames, the external tables) has forwarded the same facts
\* as in the run without stream faults.
C4_FaultDoesNotChangeOtherKinds ==
    phase = "fault_replay" =>
        /\ pc # "raised"
        /\ pc = "done" =>
              \A source \in (Sources \cup {EXTERNAL_TABLES}) \ {inject} :
                  FactsBy(aggregator, source) = FactsBy(first_run, source)

\* The replay returned; the failed kind had forwarded facts in the first
\* run, and kinds before and after it forwarded theirs in the replay.
C4_Witness ==
    /\ phase = "fault_replay"
    /\ pc = "done"
    /\ FactsBy(first_run, inject) # <<>>
    /\ FactsBy(aggregator, inject) = <<>>
    /\ \E i, j \in DOMAIN populate_calls :
          /\ i < j
          /\ populate_calls[i].lineage_type = inject
          /\ FactsBy(aggregator, populate_calls[j].lineage_type) # <<>>
    /\ FactsBy(aggregator, EXTERNAL_TABLES) # <<>>

----------------------------------------------------------------------------
(* C9 *)

\* The rows of the interleaved replay have all been classified.
InterleavedOver ==
    phase = "interleaved" /\ \A kind \in Kinds : served[kind] = <<>>

\* C9: classifying the rows of a fault-free run again in any order, across
\* and within evidence kinds, raises nothing and forwards the same set of
\* facts as the dispatch loop did.
C9_OrderIndependent ==
    /\ phase = "interleaved" => pc # "raised"
    /\ InterleavedOver =>
          Range(aggregator) = {e \in Range(first_run) : e.by \in Kinds}

\* An interleaved replay is over that forwarded the facts of two kinds in
\* the order opposite to the dispatch loop's.
C9_Witness ==
    /\ InterleavedOver
    /\ Len(aggregator) >= 2
    /\ aggregator # SelectSeq(first_run, LAMBDA e : e.by \in Kinds)
    /\ aggregator[1].by # aggregator[2].by

----------------------------------------------------------------------------
(* C11 *)

\* The identifier of the row's target under the current database.
TargetId(row) ==
    create_from_ids(platform,
                    QualifiedName(database, Fmt(row.target_schema), Fmt(row.target_table)),
                    config.env, config.platform_instance)

\* The snapshot lists table `table` in schema `schema` of database `db`.
InSnapshot(db, schema, table) ==
    \E i \in DOMAIN all_tables :
        /\ all_tables[i].k = db
        /\ \E j \in DOMAIN all_tables[i].v :
              /\ all_tables[i].v[j].k = schema
              /\ \E n \in DOMAIN all_tables[i].v[j].v :
                    all_tables[i].v[j].v[n].name = table

\* The row's target names a table that the snapshot lists under another
\* database and not under the current one.
OnlyUnderOtherDatabase(row) ==
    /\ ~InSnapshot(database, Fmt(row.target_schema), Fmt(row.target_table))
    /\ \E i \in DOMAIN all_tables :
          InSnapshot(all_tables[i].k, Fmt(row.target_schema), Fmt(row.target_table))

\* The processors that call _make_filtered_target.
UsesResolver(processor) ==
    processor \in {"_process_stl_scan_lineage", "_process_view_lineage",
                   "_process_copy_command"}

\* C11: for a row handed to a processor that resolves targets,
\* _make_filtered_target returns the identifier built from the current
\* database and the row's target schema and table exactly when that
\* identifier is in known_urns, and None otherwise; in particular None for a
\* table the snapshot lists only under another database.
C11_ResolverIffInRegistry ==
    (AtRow /\ UsesResolver(CurrentProcessor)) =>
        LET resolved == _make_filtered_target(CurrentRow) IN
        /\ resolved = Some(TargetId(CurrentRow)) <=> TargetId(CurrentRow) \in known_urns
        /\ TargetId(CurrentRow) \notin known_urns => resolved = None
        /\ OnlyUnderOtherDatabase(CurrentRow) => resolved = None

\* A scan stream held a row whose target resolved and a row whose target is
\* a table of another database only; the second is being handed to the
\* processor after the first was forwarded.
C11_Witness ==
    /\ AtRow
    /\ CurrentProcessor = "_process_stl_scan_lineage"
    /\ OnlyUnderOtherDatabase(CurrentRow)
    /\ _make_filtered_target(CurrentRow) = None
    /\ \E i \in DOMAIN aggregator :
          /\ aggregator[i].by = QUERY_SCAN
          /\ aggregator[i].call.downstream \in known_urns

----------------------------------------------------------------------------
(* C12 *)

\* The identifier of the row's source under the current database.
SourceId(row) ==
    create_from_ids(platform,
                    QualifiedName(database, Fmt(row.source_schema), Fmt(row.source_table)),
                    config.env, config.platform_instance)

\* The step forwards exactly the one fact `call`, made for the current kind,
\* and goes on with the next row.
ForwardsOnly(call) ==
    /\ aggregator' = Append(aggregator, [call |-> call, by |-> CurrentKind])
    /\ warnings' = warnings
    /\ pc' = "rows"
    /\ rows' = Tail(rows)

\* C12: a step that hands the scan processor a row whose target is in
\* known_urns and whose SQL text is non-empty forwards exactly one
\* add_known_query_lineage call: downstream the target, the one upstream
\* the source built from the row's source schema and table, the row's query
\* text and timestamp, merge_lineage = True; whether or not the source is in
\* known_urns.
C12_ScanForwardsOneMergedEdge ==
    [][(/\ AtRow
        /\ CurrentProcessor = "_process_stl_scan_lineage"
        /\ TargetId(CurrentRow) \in known_urns
        /\ Truthy(CurrentRow.ddl))
          => ForwardsOnly([method |-> "add_known_query_lineage",
                           query_text |-> CurrentRow.ddl[1],
                           downstream |-> TargetId(CurrentRow),
                           upstreams |-> <<SourceId(CurrentRow)>>,
                           timestamp |-> CurrentRow.timestamp,
                           merge_lineage |-> TRUE])
      ]_vars

\* The scan processor has forwarded an edge whose source is not in
\* known_urns, and another whose source is.
C12_Witness ==
    /\ \E i \in DOMAIN aggregator :
          /\ aggregator[i].by = QUERY_SCAN
          /\ aggregator[i].call.merge_lineage
          /\ aggregator[i].call.upstreams[1] \notin known_urns
    /\ \E i \in DOMAIN aggregator :
          /\ aggregator[i].by = QUERY_SCAN
          /\ aggregator[i].call.upstreams[1] \in known_urns

----------------------------------------------------------------------------
(* C13 *)

\* C13: a step that hands the copy processor a row forwards exactly one
\* add_known_lineage_mapping call (upstream the location _get_sources
\* returned for the filename, downstream the target; no query text) when
\* _get_sources returned an upstream, the target schema and table are both
\* non-empty and the target is in known_urns; in every other case the row
\* is dropped.
C13_CopyForwardsIffResolved ==
    [][(AtRow /\ CurrentProcessor = "_process_copy_command") =>
          IF /\ get_sources(CurrentRow.filename) # <<>>
             /\ Truthy(CurrentRow.target_schema)
             /\ Truthy(CurrentRow.target_table)
             /\ TargetId(CurrentRow) \in known_urns
          THEN ForwardsOnly([method |-> "add_known_lineage_mapping",
                             upstream_urn |-> get_sources(CurrentRow.filename)[1].urn,
                             downstream_urn |-> TargetId(CurrentRow)])
          ELSE RowDropped
      ]_vars

\* The copy stream held a row that was forwarded as an edge and a row with
\* a filename and a target that is not in known_urns, which was dropped.
C13_Witness ==
    /\ pc = "done"
    /\ Len(FactsBy(aggregator, COPY)) = 1
    /\ FactsBy(aggregator, COPY)[1].call.downstream_urn \in known_urns
    /\ \E row \in RowsServed(COPY) :
          /\ get_sources(row.filename) # <<>>
          /\ Truthy(row.target_schema) /\ Truthy(row.target_table)
          /\ TargetId(row) \notin known_urns

----------------------------------------------------------------------------
(* C14 *)

\* C14: a step that hands the unload processor a row forwards exactly one
\* add_known_lineage_mapping call (upstream the source, downstream the
\* output location _get_target_lineage returned; no merge flag) when
\* _get_target_lineage returned an entry, the source schema and table are
\* both non-empty and the source is in known_urns; in every other case the
\* row is dropped.  The output location is not tested against known_urns.
C14_UnloadForwardsIffSourceKnown ==
    [][(AtRow /\ CurrentProcessor = "_process_unload_command") =>
          IF /\ get_target_lineage(CurrentRow) # None
             /\ Truthy(CurrentRow.source_schema)
             /\ Truthy(CurrentRow.source_table)
             /\ SourceId(CurrentRow) \in known_urns
          THEN ForwardsOnly([method |-> "add_known_lineage_mapping",
                             upstream_urn |-> SourceId(CurrentRow),
                             downstream_urn |-> get_target_lineage(CurrentRow)[1].dataset.urn])
          ELSE RowDropped
      ]_vars

\* The unload stream held a row that was forwarded as an edge to an output
\* location outside known_urns, and a row with an output location and a
\* source that is not in known_urns, which was dropped.
C14_Witness ==
    /\ pc = "done"
    /\ Len(FactsBy(aggregator, UNLOAD)) = 1
    /\ FactsBy(aggregator, UNLOAD)[1].call.upstream_urn \in known_urns
    /\ FactsBy(aggregator, UNLOAD)[1].call.downstream_urn \notin known_urns
    /\ \E row \in RowsServed(UNLOAD) :
          /\ get_target_lineage(row) # None
          /\ SourceId(row) \notin known_urns

----------------------------------------------------------------------------
(* C15 *)

\* The tables of type EXTERNAL_TABLE that the snapshot lists under
\* database `db`, each with its schema name.
ExternalTablesOf(db) ==
    UNION {UNION {{[schema_name |-> all_tables[i].v[j].k,
                    name |-> all_tables[i].v[j].v[n].name] :
                      n \in {m \in DOMAIN all_tables[i].v[j].v :
                                all_tables[i].v[j].v[m].type = "EXTERNAL_TABLE"}} :
                  j \in DOMAIN all_tables[i].v} :
           i \in {m \in DOMAIN all_tables : all_tables[m].k = db}}

\* The edge of an external table of the current database: from the table of
\* the same name in the schema's external database, on the platform named
\* by the schema's type, to the table itself.
ExternalEdge(e) ==
    LET schema == Get(Get(db_schemas, database), e.schema_name) IN
    [method |-> "add_known_lineage_mapping",
     upstream_urn |-> create_from_ids(Lower(schema.type),
                                      Fmt(schema.external_database) \o "." \o e.name,
                                      config.env, None),
     downstream_urn |-> create_from_ids(platform,
                                        QualifiedName(database, e.schema_name, e.name),
                                        config.env, config.platform_instance)]

\* C15: the step that processes the external tables appends to the
\* aggregator exactly one add_known_lineage_mapping call for each table of
\* type EXTERNAL_TABLE that the snapshot lists under the current database, and
\* nothing else: no edge for a table of another type or of another database.
\* Each edge goes from the synthesized upstream to the table's own
\* identifier; neither is tested against known_urns, and no configuration
\* flag is read.
C15_OneEdgePerExternalTable ==
    [][pc = "external" =>
          LET before == Len(aggregator)
              new == SubSeq(aggregator', before + 1, Len(aggregator'))
          IN /\ SubSeq(aggregator', 1, before) = aggregator
             /\ Len(new) = Cardinality(ExternalTablesOf(database))
             /\ Range(new) = {[call |-> ExternalEdge(e), by |-> EXTERNAL_TABLES] :
                                 e \in ExternalTablesOf(database)}
      ]_vars

\* With every option off, the run returned having forwarded only the edges
\* of the two external tables of the current database, from the Glue tables
\* raw.e and raw.f (which are not in known_urns), while the snapshot lists a
\* plain table, a view and another database's external table as well.
C15_Witness ==
    /\ pc = "done"
    /\ config = MakeConfig({}, "sql_based")
    /\ ExternalTablesOf("other") # {}
    /\ InSnapshot(database, "s", "t")
    /\ Len(aggregator) = 2
    /\ \A i \in DOMAIN aggregator :
          /\ aggregator[i].by = EXTERNAL_TABLES
          /\ aggregator[i].call.upstream_urn \notin known_urns
    /\ aggregator[1].call.upstream_urn = "urn:li:dataset:(urn:li:dataPlatform:glue,raw.e,PROD)"
    /\ aggregator[1].call.downstream_urn = "urn:li:dataset:(urn:li:dataPlatform:redshift,db.x.e,PROD)"
    /\ aggregator[2].call.downstream_urn = "urn:li:dataset:(urn:li:dataPlatform:redshift,db.x.f,PROD)"

----------------------------------------------------------------------------
(* C16 *)

\* C16 as stated: a step that hands the observed-query processor a row
\* forwards exactly one add_observed_query call (the SQL text, the current
\* database and the default schema, the row's session id and timestamp, not
\* flagged as a known temp table) when the row's SQL text is non-empty, and
\* drops the row when it is empty or null; the registry and the row's
\* target and source fields play no part.
C16_ObservedQueryIffNonEmptyText ==
    [][(AtRow /\ CurrentProcessor = "_process_sql_parser_lineage") =>
          IF Truthy(CurrentRow.ddl)
          THEN ForwardsOnly([method |-> "add_observed_query",
                             query |-> CurrentRow.ddl[1],
                             default_db |-> database,
                             default_schema |-> config.default_schema,
                             query_timestamp |-> CurrentRow.timestamp,
                             session_id |-> CurrentRow.session_id,
                             is_known_temp_table |-> FALSE])
          ELSE RowDropped
      ]_vars

----------------------------------------------------------------------------
(* C17 *)

\* C17 as stated: a step that hands the view processor a row, of the VIEW
\* kind or of the VIEW_DDL_SQL_PARSING kind, forwards exactly one
\* add_view_definition call (the view's identifier, the SQL text, the
\* current database and the default schema) when the row's SQL text is
\* non-empty and its target is in known_urns, and otherwise drops the row
\* without raising.
C17_ViewDefinitionIffTextAndTarget ==
    [][(AtRow /\ CurrentProcessor = "_process_view_lineage") =>
          IF Truthy(CurrentRow.ddl) /\ TargetId(CurrentRow) \in known_urns
          THEN ForwardsOnly([method |-> "add_view_definition",
                             view_urn |-> TargetId(CurrentRow),
                             view_definition |-> CurrentRow.ddl[1],
                             default_db |-> database,
                             default_schema |-> config.default_schema])
          ELSE RowDropped
      ]_vars

----------------------------------------------------------------------------
(* C18 *)

\* The fact is an observed query flagged as a known temp table.
FlaggedTemp(e) ==
    e.call.method = "add_observed_query" /\ e.call.is_known_temp_table

\* The observed query a temp row is forwarded as.
TempFact(temp_row) ==
    [call |-> [method |-> "add_observed_query",
               query |-> temp_row.query_text,
               default_db |-> database,
               default_schema |-> config.default_schema,
               query_timestamp |-> temp_row.start_time,
               session_id |-> Some(temp_row.session_id),
               is_known_temp_table |-> TRUE],
     by |-> TEMP_TABLES]

\* C18: with resolve_temp_table_in_lineage on, once the query of any kind
\* of the dispatch loop has executed, the temp-table query has executed and
\* every row it returned has been forwarded, in order, as an observed query
\* flagged is_known_temp_table (whatever known_urns holds, through no
\* processor); these facts come before every other fact and are the only
\* flagged ones.  With the option off no forwarded fact is flagged.
C18_TempRowsForwardedBeforeLoop ==
    /\ ~config.resolve_temp_table_in_lineage =>
          \A i \in DOMAIN aggregator : ~FlaggedTemp(aggregator[i])
    /\ config.resolve_temp_table_in_lineage =>
          /\ executed \cap Kinds # {} =>
                /\ TEMP_TABLES \in executed
                /\ FactsBy(aggregator, TEMP_TABLES) =
                      [n \in DOMAIN served[TEMP_TABLES] |->
                          TempFact(served[TEMP_TABLES][n].row)]
          /\ \A i \in DOMAIN aggregator :
                FlaggedTemp(aggregator[i]) <=> aggregator[i].by = TEMP_TABLES
          /\ \A i, j \in DOMAIN aggregator :
                (i < j /\ aggregator[j].by = TEMP_TABLES)
                    => aggregator[i].by = TEMP_TABLES

\* The run returned having forwarded a flagged temp-table fact first and a
\* fact of a kind of the dispatch loop after it.
C18_Witness ==
    /\ pc = "done"
    /\ config.resolve_temp_table_in_lineage
    /\ Len(aggregator) >= 2
    /\ FlaggedTemp(aggregator[1])
    /\ aggregator[2].by \in Kinds

----------------------------------------------------------------------------
(* C19 *)

\* The step ends the current kind by its except clause: nothing is
\* forwarded, the rest of the stream is abandoned, one warning keyed by the
\* kind is recorded, and build() goes on with the next populate call.
KindAborted ==
    /\ aggregator' = aggregator
    /\ warnings' = Append(warnings, "extract-" \o CurrentKind)
    /\ rows' = NoStream
    /\ idx' = idx + 1
    /\ pc' = "populate"

\* Every enabled kind's query has been executed by the time the loop over
\* populate_calls is left.
LoopRunsEveryKind ==
    pc \in {"external", "done"} => \A kind \in Kinds : KindEnabled(kind) => kind \in executed

\* C19 as stated: a step that hands the scan processor a row without SQL
\* text never drops it silently: it aborts the scan kind (no fact, the later
\* scan rows unclassified, a warning for the scan kind) and the other kinds
\* still run.
C19_MissingTextNeverSkipped ==
    /\ [][(/\ AtRow
           /\ CurrentProcessor = "_process_stl_scan_lineage"
           /\ ~Truthy(CurrentRow.ddl))
             => KindAborted]_vars
    /\ []LoopRunsEveryKind

\* C19 amended: a scan row without SQL text whose target is in known_urns
\* aborts the scan kind (no fact, the later scan rows unclassified, one
\* warning for the scan kind) and the other kinds still run; a scan row
\* without SQL text whose target is not in known_urns is dropped silently,
\* the target being resolved before the SQL text is looked at.
C19_MissingTextAbortsWhenTargetKnown ==
    /\ [][(/\ AtRow
           /\ CurrentProcessor = "_process_stl_scan_lineage"
           /\ ~Truthy(CurrentRow.ddl))
             => IF TargetId(CurrentRow) \in known_urns
                THEN KindAborted
                ELSE RowDropped /\ rows' = Tail(rows)]_vars
    /\ []LoopRunsEveryKind

\* The run returned; the scan query had returned a row without SQL text for
\* a known target and then a well-formed row; no scan fact was forwarded,
\* the one warning is the scan kind's, and a later kind's query was executed.
C19_Witness ==
    /\ pc = "done"
    /\ Len(served[QUERY_SCAN]) = 2
    /\ ~served[QUERY_SCAN][1].exc /\ ~served[QUERY_SCAN][2].exc
    /\ served[QUERY_SCAN][1].row.ddl = None
    /\ TargetId(served[QUERY_SCAN][1].row) \in known_urns
    /\ Truthy(served[QUERY_SCAN][2].row.ddl)
    /\ TargetId(served[QUERY_SCAN][2].row) \in known_urns
    /\ FactsBy(aggregator, QUERY_SCAN) = <<>>
    /\ warnings = <<"extract-QUERY_SCAN">>
    /\ \E i, j \in DOMAIN populate_calls :
          /\ i < j
          /\ populate_calls[i].lineage_type = QUERY_SCAN
          /\ populate_calls[j].lineage_type \in executed

----------------------------------------------------------------------------
(* C20 *)

\* The position in `stream` of the first fault of a kind handled by
\* `processor` (the stream raised there, or the processor raised on that
\* row); 0 when there is none.
FirstFault(processor, stream) ==
    LET faults == {n \in DOMAIN stream :
                      \/ stream[n].exc
                      \/ Apply(processor, stream[n].row).raised}
    IN IF faults = {} THEN 0
       ELSE CHOOSE n \in faults : \A m \in faults : n <= m

\* The facts of the first `count` rows of `stream`, in order.
RECURSIVE FactsOfRows(_, _, _)
FactsOfRows(processor, stream, count) ==
    IF count = 0
    THEN <<>>
    ELSE FactsOfRows(processor, stream, count - 1)
         \o Apply(processor, stream[count].row).calls

\* How many warnings carry the key of `kind`.
WarningsFor(kind) ==
    Cardinality({n \in DOMAIN warnings : warnings[n] = "extract-" \o kind})

\* C20: for every kind whose populate call is over, with its first fault at
\* row n of its stream, the aggregator holds the facts of rows 1..n-1 of
\* that kind and no fact of row n or of a later row, and exactly one warning
\* is recorded for the kind; for a kind without a fault the aggregator holds
\* the facts of all its rows and no warning is recorded for it.  While a
\* kind is being processed the facts of the rows handled so far are in the
\* aggregator.
C20_PartialOutputKept ==
    \A i \in DOMAIN populate_calls :
        LET kind == populate_calls[i].lineage_type
            processor == populate_calls[i].processor
            stream == served[kind]
            n == FirstFault(processor, stream)
        IN /\ (i < idx) =>
                 /\ FactsBy(aggregator, kind) =
                       Tagged(FactsOfRows(processor, stream,
                                          IF n = 0 THEN Len(stream) ELSE n - 1), kind)
                 /\ WarningsFor(kind) = IF n = 0 THEN 0 ELSE 1
           /\ (i = idx /\ pc = "rows") =>
                 /\ FactsBy(aggregator, kind) =
                       Tagged(FactsOfRows(processor, stream, Len(stream) - Len(rows)), kind)
                 /\ WarningsFor(kind) = 0
           /\ (i > idx \/ (i = idx /\ pc = "populate")) =>
                 /\ FactsBy(aggregator, kind) = <<>>
                 /\ WarningsFor(kind) = 0

\* The run returned; the stream of one kind raised at its second row, the
\* fact of its first row is in the aggregator, the only warning is that
\* kind's, and another kind ran without a warning.
C20_Witness ==
    /\ pc = "done"
    /\ \E i, j \in DOMAIN populate_calls :
          LET kind == populate_calls[i].lineage_type IN
          /\ i # j
          /\ Len(served[kind]) = 2
          /\ served[kind][2].exc
          /\ Len(FactsBy(aggregator, kind)) = 1
          /\ warnings = <<"extract-" \o kind>>
          /\ populate_calls[j].lineage_type \in executed

====
